---------------------------- MODULE Spec2Model ----------------------------
(***************************************************************************)
(* Model of ssl_metrics_github_issues/create_graph.py: the interval tree   *)
(* built by createIntervalTree, the window and the two day-series computed *)
(* by main and fillDictBasedOnKeyValue, and the walk of                    *)
(* issue_spoilage_data.                                                    *)
(*                                                                         *)
(* The intervaltree library is modelled by what its calls do:              *)
(*   addi(b, e, d)  raises ValueError when b >= e, else stores [b, e)      *)
(*   begin(), end() 0 on an empty tree, else the least / greatest boundary *)
(*   at(p)          the intervals with begin <= p < end                    *)
(*   overlap(b, e)  nothing when b >= e, else the intervals with           *)
(*                  begin < e and end > b                                  *)
(* An interval's data is the issue dict itself (a reference), so it is     *)
(* modelled as the position of the issue in the input list.                *)
(***************************************************************************)
EXTENDS Integers, Sequences, FiniteSets

MaxIssues == 2
MaxDay == 5

States == {"open", "closed"}

Issue == [created_at_day : 0..MaxDay, closed_at_day : 0..MaxDay, state : States]

RECURSIVE SeqsUpTo(_, _)
SeqsUpTo(S, n) ==
    IF n = 0 THEN {<<>>}
    ELSE LET shorter == SeqsUpTo(S, n - 1)
         IN  shorter \cup {Append(s, e) : s \in {t \in shorter : Len(t) = n - 1}, e \in S}

VARIABLES
    data,           \* jsonData: the list of issue dicts
    endDayOffset,   \* the "endDayOffset" key of each issue dict, absent until set
    pc,             \* position of the run
    idx,            \* position of createIntervalTree's loop in data
    tree,           \* the IntervalTree: a set of [begin, end, data]
    startDay,       \* main's locals
    endDay,
    baseDict,
    openIssues,
    closedIssues,
    i,              \* issue_spoilage_data's loop variable
    query,          \* the arguments of the last data.overlap call
    temp_set,
    proc_overlap,
    list_of_spoilage_values

vars == <<data, endDayOffset, pc, idx, tree, startDay, endDay, baseDict,
          openIssues, closedIssues, i, query, temp_set, proc_overlap,
          list_of_spoilage_values>>

EmptyDict == [k \in {} |-> 0]

Min(S) == CHOOSE m \in S : \A n \in S : m <= n
Max(S) == CHOOSE m \in S : \A n \in S : m >= n

(* ---------------- the interval tree ---------------- *)

RaisesOnlyWhenReversed(b, e) == b > e

\* tree.addi raises ValueError for a null interval
Raises(b, e) == b >= e

addi(t, b, e, d) == t \cup {[begin |-> b, end |-> e, data |-> d]}

treeBegin(t) == IF t = {} THEN 0 ELSE Min({iv.begin : iv \in t})

treeEnd(t) == IF t = {} THEN 0 ELSE Max({iv.end : iv \in t})

at(t, p) == {iv \in t : iv.begin <= p /\ p < iv.end}

overlap(t, b, e) ==
    IF b >= e THEN {} ELSE {iv \in t : iv.begin < e /\ iv.end > b}

(* ---------------- createIntervalTree ---------------- *)

ExceptEndTwo(end) == end + 2

\* the end passed to tree.addi in the except branch
ExceptEnd(end) == end + 1

InLoop == pc = "createIntervalTree" /\ idx <= Len(data)

\* try branch: the interval is stored as given
AddIssue ==
    /\ InLoop
    /\ LET begin == data[idx].created_at_day
           end == data[idx].closed_at_day
       IN  /\ ~Raises(begin, end)
           /\ endDayOffset' = [k \in DOMAIN endDayOffset \cup {idx} |->
                                 IF k = idx THEN 0 ELSE endDayOffset[k]]
           /\ tree' = addi(tree, begin, end, idx)
    /\ idx' = idx + 1
    /\ UNCHANGED <<data, pc, startDay, endDay, baseDict, openIssues,
                   closedIssues, i, query, temp_set, proc_overlap,
                   list_of_spoilage_values>>

\* except branch: the interval is stored with its end moved
WidenIssue ==
    /\ InLoop
    /\ LET begin == data[idx].created_at_day
           end == data[idx].closed_at_day
       IN  /\ Raises(begin, end)
           /\ ~Raises(begin, ExceptEnd(end))
           /\ endDayOffset' = [k \in DOMAIN endDayOffset \cup {idx} |->
                                 IF k = idx THEN 1 ELSE endDayOffset[k]]
           /\ tree' = addi(tree, begin, ExceptEnd(end), idx)
    /\ idx' = idx + 1
    /\ UNCHANGED <<data, pc, startDay, endDay, baseDict, openIssues,
                   closedIssues, i, query, temp_set, proc_overlap,
                   list_of_spoilage_values>>

\* except branch: tree.addi raises again and nothing catches it
AbortIssue ==
    /\ InLoop
    /\ LET begin == data[idx].created_at_day
           end == data[idx].closed_at_day
       IN  /\ Raises(begin, end)
           /\ Raises(begin, ExceptEnd(end))
           /\ endDayOffset' = [k \in DOMAIN endDayOffset \cup {idx} |->
                                 IF k = idx THEN 1 ELSE endDayOffset[k]]
    /\ pc' = "aborted"
    /\ UNCHANGED <<data, idx, tree, startDay, endDay, baseDict, openIssues,
                   closedIssues, i, query, temp_set, proc_overlap,
                   list_of_spoilage_values>>

(* ---------------- main ---------------- *)

\* main: the window and the seed dictionary
ComputeWindow ==
    /\ pc = "createIntervalTree"
    /\ idx > Len(data)
    /\ LET s == treeBegin(tree)
           e0 == treeEnd(tree)
           e == IF Cardinality(at(tree, e0)) = 0 THEN e0 - 1 ELSE e0
       IN  /\ startDay' = s
           /\ endDay' = e
           /\ baseDict' = [k \in {s, e} |->
                             IF k = e THEN Cardinality(at(tree, e))
                             ELSE Cardinality(at(tree, s))]
    /\ pc' = "fillOpen"
    /\ UNCHANGED <<data, endDayOffset, idx, tree, openIssues, closedIssues,
                   i, query, temp_set, proc_overlap, list_of_spoilage_values>>

fillDictNextDay(dictionary, t, key, value) ==
    LET keys == DOMAIN dictionary
    IN  [x \in Min(keys)..(Max(keys) - 1) |->
           IF x \in keys THEN dictionary[x]
           ELSE Cardinality({iv \in at(t, x + 1) : data[iv.data][key] = value})]

fillDictBasedOnKeyValue(dictionary, t, key, value) ==
    LET keys == DOMAIN dictionary
        maxKeyValue == Max(keys)
        minKeyValue == Min(keys)
    IN  [x \in minKeyValue..(maxKeyValue - 1) |->
           IF x \in keys THEN dictionary[x]
           ELSE Cardinality({iv \in at(t, x) : data[iv.data][key] = value})]

FillOpen ==
    /\ pc = "fillOpen"
    /\ openIssues' = fillDictBasedOnKeyValue(baseDict, tree, "state", "open")
    /\ pc' = "fillClosed"
    /\ UNCHANGED <<data, endDayOffset, idx, tree, startDay, endDay, baseDict,
                   closedIssues, i, query, temp_set, proc_overlap,
                   list_of_spoilage_values>>

FillClosed ==
    /\ pc = "fillClosed"
    /\ closedIssues' = fillDictBasedOnKeyValue(baseDict, tree, "state", "closed")
    /\ pc' = "issue_spoilage_data"
    /\ UNCHANGED <<data, endDayOffset, idx, tree, startDay, endDay, baseDict,
                   openIssues, i, query, temp_set, proc_overlap,
                   list_of_spoilage_values>>

(* ---------------- issue_spoilage_data ---------------- *)

SpoiledIfOpen(iv) == data[iv.data].state = "open"

\* the condition under which an overlapping interval is appended to proc_overlap
Spoiled(iv) == iv.begin # iv.end - 1 /\ endDayOffset[iv.data] # 1

\* the arguments of data.overlap in iteration n
QueryOf(n) == IF n = 1 THEN <<0, 1>> ELSE <<n - 1, n>>

SpoilageStep ==
    /\ pc = "issue_spoilage_data"
    /\ i < treeEnd(tree)
    /\ LET q == QueryOf(i)
           found == overlap(tree, q[1], q[2])
           proc == {iv \in found : Spoiled(iv)}
       IN  /\ query' = q
           /\ temp_set' = found
           /\ proc_overlap' = proc
           /\ list_of_spoilage_values' =
                 Append(list_of_spoilage_values,
                        [day |-> i + 1, number_open |-> Cardinality(proc)])
    /\ i' = i + 1
    /\ UNCHANGED <<data, endDayOffset, pc, idx, tree, startDay, endDay,
                   baseDict, openIssues, closedIssues>>

SpoilageReturn ==
    /\ pc = "issue_spoilage_data"
    /\ i >= treeEnd(tree)
    /\ pc' = "done"
    /\ UNCHANGED <<data, endDayOffset, idx, tree, startDay, endDay, baseDict,
                   openIssues, closedIssues, i, query, temp_set, proc_overlap,
                   list_of_spoilage_values>>

(* ---------------- specification ---------------- *)

Init ==
    /\ data \in SeqsUpTo(Issue, MaxIssues)
    /\ endDayOffset = EmptyDict
    /\ pc = "createIntervalTree"
    /\ idx = 1
    /\ tree = {}
    /\ startDay = 0
    /\ endDay = 0
    /\ baseDict = EmptyDict
    /\ openIssues = EmptyDict
    /\ closedIssues = EmptyDict
    /\ i = 0
    /\ query = <<>>
    /\ temp_set = {}
    /\ proc_overlap = {}
    /\ list_of_spoilage_values = <<>>

Next ==
    \/ AddIssue
    \/ WidenIssue
    \/ AbortIssue
    \/ ComputeWindow
    \/ FillOpen
    \/ FillClosed
    \/ SpoilageStep
    \/ SpoilageReturn

Spec == Init /\ [][Next]_vars

(* ---------------- properties ---------------- *)

AfterFill == pc \in {"issue_spoilage_data", "done"}

\* the number of stored intervals that contain day d and whose issue has state s
CountAt(d, s) == Cardinality({iv \in at(tree, d) : data[iv.data].state = s})

\* C1: once both series are filled from a non-empty tree, every day d with
\* globalMinBegin <= d < globalMaxEnd is a key of the open and of the closed
\* series, and its entry is the number of stored intervals that contain d
\* and have that state.
C1_SeriesCountsByState ==
    (AfterFill /\ tree # {}) =>
        \A d \in treeBegin(tree)..(treeEnd(tree) - 1) :
            /\ d \in DOMAIN openIssues
            /\ d \in DOMAIN closedIssues
            /\ openIssues[d] = CountAt(d, "open")
            /\ closedIssues[d] = CountAt(d, "closed")

\* C2: for every day d that is a key of both series, open[d] + closed[d] is
\* the number of stored intervals that contain d.
C2_OpenPlusClosedIsTotal ==
    AfterFill =>
        \A d \in DOMAIN openIssues \cap DOMAIN closedIssues :
            openIssues[d] + closedIssues[d] = Cardinality(at(tree, d))

\* C3 (as stated): closed[d] is non-decreasing over the keys of the closed
\* series.
C3_ClosedNonDecreasing ==
    AfterFill =>
        \A d1, d2 \in DOMAIN closedIssues :
            d1 < d2 => closedIssues[d1] <= closedIssues[d2]

\* every interval containing day d1 belongs to a closed issue and also
\* contains day d2
AllClosedAndStillAlive(d1, d2) ==
    \A iv \in at(tree, d1) :
        data[iv.data].state = "closed" /\ iv \in at(tree, d2)

\* C3 (amended): for keys d1 < d2 of the closed series, closed[d1] <=
\* closed[d2] whenever every interval containing d1 has state closed and
\* also contains d2.
C3_ClosedNonDecreasingWhileAlive ==
    AfterFill =>
        \A d1, d2 \in DOMAIN closedIssues :
            (d1 < d2 /\ AllClosedAndStillAlive(d1, d2)) =>
                closedIssues[d1] <= closedIssues[d2]

\* two keys after the seeded first day, both with closed issues alive, the
\* earlier day's intervals all closed and alive on the later day
C3_Witness ==
    /\ pc = "done"
    /\ \E d1, d2 \in DOMAIN closedIssues :
          /\ startDay < d1
          /\ d1 < d2
          /\ AllClosedAndStillAlive(d1, d2)
          /\ closedIssues[d1] >= 2

\* the number of stored intervals that contain day d and whose issue lived
\* more than one day before any widening
SpoiledAt(d) ==
    Cardinality({iv \in at(tree, d) :
        data[iv.data].closed_at_day - data[iv.data].created_at_day > 1})

\* C4: every record emitted by issue_spoilage_data with "day" = d has
\* number_open equal to the number of stored intervals that contain d and
\* whose pre-widening lifetime exceeds one day.
C4_SpoilageCountsOwnDay ==
    \A k \in 1..Len(list_of_spoilage_values) :
        list_of_spoilage_values[k].number_open =
            SpoiledAt(list_of_spoilage_values[k].day)

\* the interval createIntervalTree is to store for the issue at position k
Stored(k) ==
    [begin |-> data[k].created_at_day,
     end |-> IF data[k].created_at_day = data[k].closed_at_day
             THEN data[k].created_at_day + 1
             ELSE data[k].closed_at_day,
     data |-> k]

\* C5: when the list holds a record closed before it was created, the run
\* does not abort, that record is not stored, and once the tree is built
\* every other record of the list is stored.
C5_BadRecordOnlySkipped ==
    (\E k \in 1..Len(data) : data[k].closed_at_day < data[k].created_at_day) =>
        /\ pc # "aborted"
        /\ \A iv \in tree :
              data[iv.data].closed_at_day >= data[iv.data].created_at_day
        /\ (pc # "createIntervalTree") =>
              \A k \in 1..Len(data) :
                  data[k].closed_at_day >= data[k].created_at_day =>
                      Stored(k) \in tree

\* C6: with an empty input list the run never completes and no series ever
\* has a day key.
C6_EmptyInputFails ==
    (data = <<>>) =>
        /\ pc # "done"
        /\ DOMAIN openIssues = {}
        /\ DOMAIN closedIssues = {}
        /\ list_of_spoilage_values = <<>>

\* C7: every interval stored in the tree has begin < end, after any prefix
\* of the input list.
C7_NoDegenerateInterval ==
    \A iv \in tree : iv.begin < iv.end

\* a same-day issue has been stored while the loop is still running
C7_Witness ==
    /\ InLoop
    /\ \E iv \in tree :
          data[iv.data].created_at_day = data[iv.data].closed_at_day

\* C8: for every issue the loop has handled, the flag is 1 and
\* [created, created + 1) is stored exactly when created = closed, and an
\* issue with created < closed is stored as [created, closed) with flag 0.
C8_WidenedExactlySameDay ==
    \A k \in DOMAIN endDayOffset :
        LET created == data[k].created_at_day
            closed == data[k].closed_at_day
        IN  /\ (created = closed) <=>
                  /\ endDayOffset[k] = 1
                  /\ [begin |-> created, end |-> created + 1, data |-> k] \in tree
            /\ (created < closed) =>
                  /\ endDayOffset[k] = 0
                  /\ [begin |-> created, end |-> closed, data |-> k] \in tree
                  /\ \A iv \in tree : iv.data = k => iv.end = closed

\* the tree holds a widened same-day issue and an unchanged longer one
C8_Witness ==
    /\ pc = "fillOpen"
    /\ \E k1, k2 \in DOMAIN endDayOffset :
          /\ data[k1].created_at_day = data[k1].closed_at_day
          /\ data[k2].created_at_day < data[k2].closed_at_day
          /\ Stored(k1) \in tree
          /\ Stored(k2) \in tree

\* C9: an interval whose flag is 1 is never in proc_overlap, and the
\* number_open of the record just emitted is the size of proc_overlap.
C9_WidenedNeverSpoiled ==
    /\ \A iv \in proc_overlap : endDayOffset[iv.data] # 1
    /\ Len(list_of_spoilage_values) > 0 =>
          list_of_spoilage_values[Len(list_of_spoilage_values)].number_open
              = Cardinality(proc_overlap)
    /\ \A k \in 1..Len(list_of_spoilage_values) :
          list_of_spoilage_values[k].number_open
              <= Cardinality({iv \in tree : endDayOffset[iv.data] # 1})

\* a query returned a widened interval of an open issue together with an
\* interval that was counted
C9_Witness ==
    /\ \E iv \in temp_set :
          endDayOffset[iv.data] = 1 /\ data[iv.data].state = "open"
    /\ proc_overlap # {}
    /\ list_of_spoilage_values # <<>>

\* C10: every overlap query of the walk has a non-negative lower bound, and
\* the first iteration queries overlapping(0, 1).
C10_NoNegativeQuery ==
    (query # <<>>) =>
        /\ query[1] >= 0
        /\ (i = 1 => query = <<0, 1>>)

=============================================================================
